---- MODULE Spec2Model ----
(***************************************************************************)
(* A model of envalid's cleanEnv pipeline (src/unnamed/part_000):          *)
(* per-key resolution and validation, error aggregation, reporting,        *)
(* middleware application and freezing of the result.                      *)
(*                                                                         *)
(* JavaScript values are modelled as tagged strings: "s:..." is a string,  *)
(* "n:..." a number, "b:..." a boolean, "undefined", "null", and the       *)
(* test-only symbol.  Strict equality (===) is equality of the tags.       *)
(***************************************************************************)
EXTENDS Integers, Sequences, FiniteSets, TLC

VARIABLES
    processNodeEnv, \* process.env.NODE_ENV at the time the specs were built
    environment,    \* the raw environment passed to cleanEnv (never written)
    specSrc,        \* the spec declarations as written by the caller
    specs,          \* the spec objects passed to cleanEnv
    varKeys,        \* Object.keys(specs), in declaration order
    options,        \* the third argument of cleanEnv as the caller passed it
    pc,             \* "loop", "middleware", "returned", "thrown", "exited"
    i,              \* position of the for-loop in varKeys
    heap,           \* the objects: heap[id] is the property map of object id
    frozen,         \* ids of the objects Object.freeze was applied to
    acc,            \* id of the object `output` currently refers to
    errors,         \* the error map
    thrown,         \* the error that left cleanEnv, if one did
    rawValues,      \* history: rawValue computed for each key processed
    parsed,         \* history: <<key, input>> of every call of spec._parse
    reporterCalls,  \* history: the calls of the reporter
    mwLog,          \* history: the middleware stages run
    result,         \* id of the object returned (0: none)
    writes          \* number of write attempts made on the result

vars == <<processNodeEnv, environment, specSrc, specs, varKeys, options, pc, i,
          heap, frozen, acc, errors, thrown, rawValues, parsed, reporterCalls,
          mwLog, result, writes>>

inputs == <<processNodeEnv, environment, specSrc, specs, varKeys, options>>

----------------------------------------------------------------------------
(* Bounds *)

NumKeys == 2
MaxMiddleware == 2
MaxWrites == 1

----------------------------------------------------------------------------
(* Values *)

Undefined == "undefined"
Null == "null"
testOnlySymbol == "symbol:envalid - test only"
TestOnlyStub == "testOnly(s:stub)"

Strings == {"s:", "s:a", "s:b", "s:d", "s:v", "s:x", "s:stub", "s:A", "s:B",
            "s:production", "s:test"}

Falsy == {"s:", "n:0", "b:false"}

KeyNames == <<"K1", "K2", "K3", "K4">>

EmptyObj == [x \in {} |-> Undefined]

Put(o, k, v) == [x \in (DOMAIN o) \cup {k} |-> IF x = k THEN v ELSE o[x]]

Remove(o, k) == [x \in (DOMAIN o) \ {k} |-> o[x]]

Get(o, k) == IF k \in DOMAIN o THEN o[k] ELSE Undefined

NoError == [type |-> "none", msg |-> "none"]
EnvMissingError == [type |-> "EnvMissingError", msg |-> "missing"]
EnvError(m) == [type |-> "EnvError", msg |-> m]
JsTypeError(m) == [type |-> "TypeError", msg |-> m]

NoChoices == [kind |-> "absent", items |-> {}]

----------------------------------------------------------------------------
(* The parser collaborators a spec delegates to (spec._parse).  "str",     *)
(* "num" and "bool" are validators of the built-in catalog;                *)
(* "returnsUndefined" is a custom parser that yields no value;             *)
(* "notFunction" is a malformed spec whose _parse is not callable.         *)

ParserKinds == {"str", "num", "bool", "returnsUndefined", "notFunction"}

Parse(kind, input) ==
    CASE kind = "str" ->
           IF input \in Strings THEN [threw |-> FALSE, value |-> input]
           ELSE [threw |-> TRUE, value |-> Undefined]
      [] kind = "num" ->
           IF input = "n:0" \/ input = "s:" THEN [threw |-> FALSE, value |-> "n:0"]
           ELSE [threw |-> TRUE, value |-> Undefined]
      [] kind = "bool" ->
           IF input = "b:false" THEN [threw |-> FALSE, value |-> "b:false"]
           ELSE [threw |-> TRUE, value |-> Undefined]
      [] OTHER -> [threw |-> FALSE, value |-> Undefined]

----------------------------------------------------------------------------
(* validateVar *)

ValidateVar(spec, rawValue) ==
    IF spec.parse = "notFunction"
    THEN [ok |-> FALSE, value |-> Undefined, err |-> EnvError("invalidSpec"),
          called |-> FALSE]
    ELSE LET p == Parse(spec.parse, rawValue)
             value == p.value
         IN  IF p.threw
             THEN [ok |-> FALSE, value |-> Undefined, err |-> EnvError("parse"),
                   called |-> TRUE]
             ELSE IF spec.choices.kind = "notArray"
             THEN [ok |-> FALSE, value |-> Undefined,
                   err |-> JsTypeError("choicesNotArray"), called |-> TRUE]
             ELSE IF spec.choices.kind = "array" /\ value \notin spec.choices.items
             THEN [ok |-> FALSE, value |-> Undefined,
                   err |-> EnvError("notInChoices"), called |-> TRUE]
             ELSE IF value \in {Undefined, Null}
             THEN [ok |-> FALSE, value |-> Undefined,
                   err |-> EnvError("invalidValue"), called |-> TRUE]
             ELSE [ok |-> TRUE, value |-> value, err |-> NoError, called |-> TRUE]

----------------------------------------------------------------------------
(* Resolution of one key's raw value *)

ReadRawEnvValue(env, k) == IF k \in DOMAIN env THEN env[k] ELSE Undefined

IsTestOnlySymbol_AsString(value) == value = "s:envalid - test only"

IsTestOnlySymbol(value) == value = testOnlySymbol

UsingDevDefault(rawNodeEnv, spec) ==
    rawNodeEnv # "s:production" /\ spec.hasDevDefault

DevDefaultOf(rawNodeEnv, spec) ==
    IF UsingDevDefault(rawNodeEnv, spec) THEN spec.devDefault ELSE Undefined

RawValueOf(env, spec, k) ==
    LET explicit == ReadRawEnvValue(env, k)
        devDefault == DevDefaultOf(ReadRawEnvValue(env, "NODE_ENV"), spec)
    IN  IF explicit \notin {Undefined, Null} THEN explicit
        ELSE IF devDefault = Undefined THEN spec.default
        ELSE devDefault

UsingFalsyDefault(env, spec, k) ==
    LET rawNodeEnv == ReadRawEnvValue(env, "NODE_ENV")
        rawValue == RawValueOf(env, spec, k)
    IN  \/ spec.hasDefault /\ spec.default = rawValue
        \/ UsingDevDefault(rawNodeEnv, spec) /\ DevDefaultOf(rawNodeEnv, spec) = rawValue

IsMissing_Falsy(rawValue) == rawValue \in Falsy \cup {Undefined, Null}

IsMissing(rawValue) == rawValue = Undefined

(* The body of the try block for key k: what it does with the key.         *)
(* kind "ok": output[k] is assigned value; "skip": nothing happens;        *)
(* "err": err is thrown inside the try block.                              *)
VarOutcome(env, spec, k) ==
    LET rawValue == RawValueOf(env, spec, k)
    IN  IF IsTestOnlySymbol(rawValue)
        THEN [kind |-> "err", value |-> Undefined, err |-> EnvMissingError,
              raw |-> rawValue, called |-> FALSE]
        ELSE IF IsMissing(rawValue)
        THEN IF ~UsingFalsyDefault(env, spec, k)
             THEN [kind |-> "err", value |-> Undefined, err |-> EnvMissingError,
                   raw |-> rawValue, called |-> FALSE]
             ELSE [kind |-> "skip", value |-> Undefined, err |-> NoError,
                   raw |-> rawValue, called |-> FALSE]
        ELSE LET r == ValidateVar(spec, rawValue)
             IN  [kind |-> IF r.ok THEN "ok" ELSE "err", value |-> r.value,
                  err |-> r.err, raw |-> rawValue, called |-> r.called]

NextOutput_Eager(out, k, o) ==
    IF o.kind = "skip" THEN out ELSE Put(out, k, IF o.kind = "ok" THEN o.value ELSE o.raw)

NextOutput(out, k, o) == IF o.kind = "ok" THEN Put(out, k, o.value) ELSE out

NextErrors(errs, k, o) == IF o.kind = "err" THEN Put(errs, k, o.err) ELSE errs

----------------------------------------------------------------------------
(* testOnly and the construction of the spec objects *)

TestOnly(nodeEnv, defaultValueForTests) ==
    IF nodeEnv = "s:test" THEN defaultValueForTests ELSE testOnlySymbol

EvalDefault(nodeEnv, expr) ==
    IF expr = TestOnlyStub THEN TestOnly(nodeEnv, "s:stub") ELSE expr

BuildSpec(nodeEnv, src) ==
    [src EXCEPT !.default = EvalDefault(nodeEnv, @),
                !.devDefault = EvalDefault(nodeEnv, @)]

----------------------------------------------------------------------------
(* Options, reporter and middleware *)

defaultMiddlewares == <<"accessors">>

DefaultOptions ==
    [passed |-> FALSE, reporter |-> Undefined, hasMiddleware |-> TRUE,
     middleware |-> defaultMiddlewares]

(* the value of the parameter `options` inside cleanEnv *)
Options == IF options.passed THEN options ELSE DefaultOptions

Rethrows_Always(o) == TRUE

Rethrows_Never(o) == FALSE

Rethrows(o) == o.reporter = Null

ReporterOf(o) == IF o.reporter \in {Undefined, Null} THEN "default" ELSE "custom"

DefaultReporterExits(errs) == DOMAIN errs # {}

MiddlewareToApply(o) ==
    IF o.hasMiddleware /\ Len(o.middleware) > 0 THEN o.middleware ELSE <<>>

StageAt_Reversed(mws, n) == mws[Len(mws) - n + 1]

StageAt(mws, n) == mws[n]

OutputId == 1

(* One middleware stage mw(acc, environment): the heap after it and the id *)
(* of the object it returns.  "stampA" writes into acc and returns it;     *)
(* "copyB" and "accessors" return a new object.                            *)
RunMiddleware(mw, h, inId, env) ==
    LET old == Get(h[inId], "stamp")
        new == Len(h) + 1
    IN  CASE mw = "stampA" ->
               [heap |-> [h EXCEPT ![inId] = Put(Put(@, "prev", old), "stamp", "s:A")],
                out |-> inId]
          [] mw = "copyB" ->
               [heap |-> Append(h, Put(Put(h[inId], "prev", old), "stamp", "s:B")),
                out |-> new]
          [] OTHER ->
               [heap |-> Append(h, Put(h[inId], "isProduction",
                           IF ReadRawEnvValue(env, "NODE_ENV") = "s:production"
                           THEN "b:true" ELSE "b:false")),
                out |-> new]

FreezeTarget_Output == OutputId

FreezeTarget == acc

WriteOps == {"set", "delete"}

ApplyWrite(o, op, k, v) == IF op = "set" THEN Put(o, k, v) ELSE Remove(o, k)

----------------------------------------------------------------------------
(* The inputs of a call.  Three families of calls are explored: one key    *)
(* with every combination of default and dev-default declarations; up to   *)
(* NumKeys keys with specs that pass, fail or are skipped; one key with    *)
(* every middleware array of up to MaxMiddleware stages.                   *)

StrSpec(hasD, d, hasV, v) ==
    [parse |-> "str", hasDefault |-> hasD, default |-> d,
     hasDevDefault |-> hasV, devDefault |-> v, choices |-> NoChoices]

DefaultDecls ==
    {<<FALSE, Undefined>>, <<TRUE, Undefined>>, <<TRUE, "s:d">>, <<TRUE, "s:">>,
     <<TRUE, TestOnlyStub>>}

DevDefaultDecls ==
    {<<FALSE, Undefined>>, <<TRUE, Undefined>>, <<TRUE, "s:v">>, <<TRUE, "s:">>,
     <<TRUE, TestOnlyStub>>}

ResolveTemplates ==
    {StrSpec(d[1], d[2], v[1], v[2]) : d \in DefaultDecls, v \in DevDefaultDecls}
    \cup {[StrSpec(TRUE, "n:0", FALSE, Undefined) EXCEPT !.parse = "num"],
          [StrSpec(TRUE, "b:false", FALSE, Undefined) EXCEPT !.parse = "bool"],
          [StrSpec(TRUE, "s:", FALSE, Undefined) EXCEPT
               !.choices = [kind |-> "array", items |-> {"s:a", "s:b"}]]}

LoopTemplates ==
    {StrSpec(FALSE, Undefined, FALSE, Undefined),
     StrSpec(TRUE, "s:d", FALSE, Undefined),
     StrSpec(TRUE, Undefined, FALSE, Undefined),
     [StrSpec(FALSE, Undefined, FALSE, Undefined) EXCEPT
          !.choices = [kind |-> "array", items |-> {"s:a"}]],
     [StrSpec(FALSE, Undefined, FALSE, Undefined) EXCEPT
          !.choices = [kind |-> "notArray", items |-> {}]],
     [StrSpec(FALSE, Undefined, FALSE, Undefined) EXCEPT !.parse = "notFunction"],
     [StrSpec(FALSE, Undefined, FALSE, Undefined) EXCEPT !.parse = "returnsUndefined"]}

MiddlewareTemplates ==
    {StrSpec(FALSE, Undefined, FALSE, Undefined),
     StrSpec(TRUE, "s:d", FALSE, Undefined)}

Reporters == {Undefined, Null, "custom"}

UserMiddlewares == {"stampA", "copyB"}

SeqsUpTo(S, n) == UNION {[1..m -> S] : m \in 0..n}

NotPassed == [passed |-> FALSE, reporter |-> Undefined, hasMiddleware |-> FALSE,
              middleware |-> <<>>]

Passed(r, hasM, m) == [passed |-> TRUE, reporter |-> r, hasMiddleware |-> hasM,
                       middleware |-> m]

ResolveOptions ==
    {NotPassed, Passed("custom", FALSE, <<>>), Passed(Null, TRUE, <<"stampA">>)}

LoopOptions ==
    {NotPassed}
    \cup {Passed(r, FALSE, <<>>) : r \in Reporters}
    \cup {Passed(r, TRUE, <<"copyB">>) : r \in Reporters}

MiddlewareOptions ==
    {NotPassed}
    \cup {Passed(r, FALSE, <<>>) : r \in Reporters}
    \cup {Passed(r, TRUE, m) : r \in Reporters, m \in SeqsUpTo(UserMiddlewares, MaxMiddleware)}

NodeEnvs == {Undefined, "s:production", "s:test"}

KeySet(n) == {KeyNames[x] : x \in 1..n}

Start ==
    /\ pc = "loop"
    /\ i = 1
    /\ heap = <<EmptyObj>>
    /\ frozen = {}
    /\ acc = OutputId
    /\ errors = EmptyObj
    /\ thrown = [key |-> "none", err |-> NoError]
    /\ rawValues = EmptyObj
    /\ parsed = {}
    /\ reporterCalls = <<>>
    /\ mwLog = <<>>
    /\ result = 0
    /\ writes = 0

Call(n, templates, explicits, nodeEnvs, procEnvs, opts) ==
    /\ varKeys = SubSeq(KeyNames, 1, n)
    /\ specSrc \in [KeySet(n) -> templates]
    /\ processNodeEnv \in procEnvs
    /\ specs = [k \in KeySet(n) |-> BuildSpec(processNodeEnv, specSrc[k])]
    /\ \E e \in [KeySet(n) -> explicits], ne \in nodeEnvs :
          environment = [k \in KeySet(n) \cup {"NODE_ENV", "EXTRA"} |->
                            IF k = "NODE_ENV" THEN ne
                            ELSE IF k = "EXTRA" THEN "s:x" ELSE e[k]]
    /\ options \in opts

InitResolve ==
    Call(1, ResolveTemplates, {Undefined, "s:a", "s:"}, NodeEnvs, NodeEnvs, ResolveOptions)

InitLoop ==
    \E n \in 0..NumKeys :
       Call(n, LoopTemplates, {Undefined, "s:b"}, {Undefined, "s:production"},
            {Undefined}, LoopOptions)

InitMiddleware ==
    Call(1, MiddlewareTemplates, {Undefined, "s:a"}, {Undefined, "s:production"},
         {Undefined}, MiddlewareOptions)

Init == Start /\ (InitResolve \/ InitLoop \/ InitMiddleware)

----------------------------------------------------------------------------
(* The steps of cleanEnv *)

(* one iteration of the for-loop over varKeys *)
ValidateKey ==
    /\ pc = "loop"
    /\ i <= Len(varKeys)
    /\ LET k == varKeys[i]
           o == VarOutcome(environment, specs[k], k)
       IN  /\ rawValues' = Put(rawValues, k, o.raw)
           /\ parsed' = IF o.called THEN parsed \cup {<<k, o.raw>>} ELSE parsed
           /\ IF o.kind = "err" /\ Rethrows(Options)
              THEN /\ pc' = "thrown"
                   /\ thrown' = [key |-> k, err |-> o.err]
                   /\ UNCHANGED <<heap, errors, i>>
              ELSE /\ heap' = [heap EXCEPT ![acc] = NextOutput(@, k, o)]
                   /\ errors' = NextErrors(errors, k, o)
                   /\ i' = i + 1
                   /\ UNCHANGED <<pc, thrown>>
    /\ UNCHANGED <<inputs, frozen, acc, reporterCalls, mwLog, result, writes>>

(* the reporter call after the loop *)
Report ==
    /\ pc = "loop"
    /\ i > Len(varKeys)
    /\ reporterCalls' = Append(reporterCalls,
           [who |-> ReporterOf(Options), errors |-> errors, env |-> acc,
            envProps |-> heap[acc]])
    /\ pc' = IF ReporterOf(Options) = "default" /\ DefaultReporterExits(errors)
             THEN "exited" ELSE "middleware"
    /\ UNCHANGED <<inputs, i, heap, frozen, acc, errors, thrown, rawValues, parsed,
                   mwLog, result, writes>>

(* one step of options.middleware.reduce *)
ApplyMiddleware ==
    /\ pc = "middleware"
    /\ Len(mwLog) < Len(MiddlewareToApply(Options))
    /\ LET mw == StageAt(MiddlewareToApply(Options), Len(mwLog) + 1)
           r == RunMiddleware(mw, heap, acc, environment)
       IN  /\ heap' = r.heap
           /\ acc' = r.out
           /\ mwLog' = Append(mwLog,
                  [mw |-> mw, inId |-> acc, inProps |-> heap[acc], env |-> environment,
                   outId |-> r.out, outProps |-> r.heap[r.out]])
    /\ UNCHANGED <<inputs, pc, i, frozen, errors, thrown, rawValues, parsed,
                   reporterCalls, result, writes>>

(* return Object.freeze(output) *)
Return ==
    /\ pc = "middleware"
    /\ Len(mwLog) >= Len(MiddlewareToApply(Options))
    /\ frozen' = frozen \cup {FreezeTarget}
    /\ result' = acc
    /\ pc' = "returned"
    /\ UNCHANGED <<inputs, i, heap, acc, errors, thrown, rawValues, parsed,
                   reporterCalls, mwLog, writes>>

(* the caller tries to set or delete a property of the returned object *)
WriteAttempt ==
    /\ pc = "returned"
    /\ writes < MaxWrites
    /\ \E op \in WriteOps, k \in (DOMAIN heap[result]) \cup {"EXTRA"}, v \in {"s:x", "s:a"} :
          heap' = [heap EXCEPT ![result] =
                      IF result \in frozen THEN @ ELSE ApplyWrite(@, op, k, v)]
    /\ writes' = writes + 1
    /\ UNCHANGED <<inputs, pc, i, frozen, acc, errors, thrown, rawValues, parsed,
                   reporterCalls, mwLog, result>>

Next == ValidateKey \/ Report \/ ApplyMiddleware \/ Return \/ WriteAttempt

Spec == Init /\ [][Next]_vars

----------------------------------------------------------------------------
(* Vocabulary of the properties *)

Keys == {varKeys[n] : n \in 1..Len(varKeys)}

Processed == DOMAIN rawValues

Output == heap[OutputId]

Outcome(k) == VarOutcome(environment, specs[k], k)

NoExplicit(k) == ReadRawEnvValue(environment, k) = Undefined

Production == ReadRawEnvValue(environment, "NODE_ENV") = "s:production"

MissingFor(k) ==
    \/ k \in DOMAIN errors /\ errors[k] = EnvMissingError
    \/ thrown.key = k /\ thrown.err = EnvMissingError

NoErrorFor(k) == k \notin DOMAIN errors /\ thrown.key # k

ErrorFor(k, e) ==
    \/ k \in DOMAIN errors /\ errors[k] = e
    \/ thrown.key = k /\ thrown.err = e

InvalidAt == {n \in 1..Len(varKeys) : Outcome(varKeys[n]).kind = "err"}

FirstInvalid == CHOOSE n \in InvalidAt : \A m \in InvalidAt : n <= m

MiddlewareArray == IF Options.hasMiddleware THEN Options.middleware ELSE <<>>

StagesRun == [n \in 1..Len(mwLog) |-> mwLog[n].mw]

BeforeMiddleware == pc \in {"loop", "thrown", "exited"} \/ mwLog = <<>>

----------------------------------------------------------------------------
(* C1: for every key processed, the raw value is the explicit value when  *)
(* the raw environment holds one; with no explicit value and NODE_ENV     *)
(* exactly "production" it is the regular default; with no explicit value *)
(* and any other NODE_ENV, a declared dev-default is used in preference   *)
(* to the regular default.                                                *)
C1_Precedence ==
    \A k \in Processed :
       LET e == ReadRawEnvValue(environment, k)
           s == specs[k]
       IN  /\ e # Undefined => rawValues[k] = e
           /\ (e = Undefined /\ Production) => rawValues[k] = s.default
           /\ (e = Undefined /\ ~Production /\ s.hasDevDefault)
                 => rawValues[k] = s.devDefault

(* C2: with a reporter that is not null no per-key failure leaves the     *)
(* loop; the reporter is called exactly once, after every declared key    *)
(* was processed, with an errors map holding exactly the failed keys and  *)
(* an env holding exactly the keys that passed.                           *)
C2_Aggregation ==
    Options.reporter # Null =>
       /\ pc # "thrown"
       /\ thrown.key = "none"
       /\ Len(reporterCalls) <= 1
       /\ (pc \in {"middleware", "returned", "exited"}) <=> (Len(reporterCalls) = 1)
       /\ Len(reporterCalls) = 1 =>
             LET c == reporterCalls[1]
             IN  /\ Processed = Keys
                 /\ i = Len(varKeys) + 1
                 /\ c.who = (IF Options.reporter = "custom" THEN "custom" ELSE "default")
                 /\ DOMAIN c.errors = {k \in Keys : Outcome(k).kind = "err"}
                 /\ \A k \in DOMAIN c.errors : c.errors[k] = Outcome(k).err
                 /\ c.env = OutputId
                 /\ DOMAIN c.envProps = {k \in Keys : Outcome(k).kind = "ok"}
                 /\ \A k \in DOMAIN c.envProps : c.envProps[k] = Outcome(k).value

C2_Witness ==
    /\ Options.reporter = "custom"
    /\ Len(varKeys) = 2
    /\ Len(reporterCalls) = 1
    /\ "K1" \in DOMAIN reporterCalls[1].errors
    /\ "K2" \in DOMAIN reporterCalls[1].envProps

(* C3: with reporter null and an invalid key, the error of the first      *)
(* invalid key in declared order leaves cleanEnv at once: no later key is *)
(* resolved or parsed, no reporter and no middleware runs, nothing is     *)
(* returned.                                                              *)
C3_ThrowFirst ==
    (Options.reporter = Null /\ InvalidAt # {}) =>
       /\ pc \in {"loop", "thrown"}
       /\ i <= FirstInvalid
       /\ Processed \subseteq {varKeys[n] : n \in 1..FirstInvalid}
       /\ \A p \in parsed : p[1] \in {varKeys[n] : n \in 1..FirstInvalid}
       /\ reporterCalls = <<>>
       /\ mwLog = <<>>
       /\ result = 0
       /\ frozen = {}
       /\ pc = "loop" => thrown.key = "none"
       /\ pc = "thrown" =>
             /\ i = FirstInvalid
             /\ thrown.key = varKeys[FirstInvalid]
             /\ thrown.err = Outcome(varKeys[FirstInvalid]).err
             /\ DOMAIN errors = {}

C3_Witness ==
    /\ pc = "thrown"
    /\ Len(varKeys) = 2
    /\ thrown.key = "K1"
    /\ "K2" \notin Processed

(* C4: during the per-key pass the output and the error map have disjoint *)
(* key sets of declared keys only; a key is in the output only if its     *)
(* validation succeeded and in the error map only if it failed; after the *)
(* pass every declared key is in exactly one of the two, or in neither    *)
(* when it was skipped as validly absent.                                 *)
C4_Disjoint ==
    BeforeMiddleware =>
       /\ (DOMAIN Output) \cap (DOMAIN errors) = {}
       /\ DOMAIN Output \subseteq Keys \cap Processed
       /\ DOMAIN errors \subseteq Keys \cap Processed
       /\ \A k \in DOMAIN Output :
             Outcome(k).kind = "ok" /\ Output[k] = Outcome(k).value
       /\ \A k \in DOMAIN errors :
             Outcome(k).kind = "err" /\ errors[k] = Outcome(k).err
       /\ \A k \in DOMAIN environment \ Keys : k \notin DOMAIN Output
       /\ (pc # "thrown" /\ i > Len(varKeys)) =>
             \A k \in Keys :
                /\ k \in DOMAIN Output <=> Outcome(k).kind = "ok"
                /\ k \in DOMAIN errors <=> Outcome(k).kind = "err"
                /\ (k \notin DOMAIN Output /\ k \notin DOMAIN errors)
                      <=> Outcome(k).kind = "skip"

C4_Witness ==
    /\ i > Len(varKeys)
    /\ mwLog = <<>>
    /\ "K1" \in DOMAIN errors
    /\ "K2" \in DOMAIN Output

(* C5: when the options name no middleware sequence (no options at all,   *)
(* or options with only a reporter), the built-in default middleware      *)
(* catalog has been applied to the object that is returned.               *)
C5_DefaultMiddleware ==
    (pc = "returned" /\ (~options.passed \/ ~options.hasMiddleware))
       => StagesRun = defaultMiddlewares

(* C6: middleware runs only after the whole per-key pass and the reporter *)
(* call, in array order with no stage skipped: stage 1 receives the       *)
(* validated output, stage n > 1 receives the object stage n-1 returned,  *)
(* every stage receives the raw environment, and the result returned is   *)
(* the last stage's output.                                               *)
C6_MiddlewareOrder ==
    /\ Len(mwLog) <= Len(MiddlewareArray)
    /\ mwLog # <<>> =>
          /\ pc \in {"middleware", "returned"}
          /\ i = Len(varKeys) + 1
          /\ Processed = Keys
          /\ Len(reporterCalls) = 1
    /\ \A n \in 1..Len(mwLog) :
          /\ mwLog[n].mw = MiddlewareArray[n]
          /\ mwLog[n].env = environment
          /\ IF n = 1
             THEN /\ mwLog[n].inId = OutputId
                  /\ mwLog[n].inProps = reporterCalls[1].envProps
             ELSE /\ mwLog[n].inId = mwLog[n - 1].outId
                  /\ mwLog[n].inProps = mwLog[n - 1].outProps
    /\ pc = "returned" =>
          /\ Len(mwLog) = Len(MiddlewareArray)
          /\ result = (IF mwLog = <<>> THEN OutputId ELSE mwLog[Len(mwLog)].outId)
          /\ writes = 0 =>
                heap[result] = (IF mwLog = <<>> THEN reporterCalls[1].envProps
                                ELSE mwLog[Len(mwLog)].outProps)

C6_Witness ==
    /\ pc = "returned"
    /\ Len(mwLog) = 2
    /\ mwLog[1].mw = "stampA"
    /\ mwLog[2].mw = "copyB"
    /\ result = mwLog[2].outId

(* C7 as stated: a key with no explicit value whose resolved default is   *)
(* falsy (empty string, 0, false) gets no error-map entry and that        *)
(* default is assigned as its value; a resolved, declared undefined omits *)
(* the key with no error.                                                 *)
C7_FalsyDefaultAssigned ==
    \A k \in Processed :
       /\ (NoExplicit(k) /\ rawValues[k] \in Falsy) =>
             /\ NoErrorFor(k)
             /\ k \in DOMAIN Output
             /\ Output[k] = rawValues[k]
       /\ (rawValues[k] = Undefined
             /\ (specs[k].hasDefault \/ (~Production /\ specs[k].hasDevDefault))) =>
             /\ NoErrorFor(k)
             /\ k \notin DOMAIN Output

(* C7 amended: a key with no explicit value whose resolved default is     *)
(* falsy raises no missing-value error; the default is validated like an  *)
(* explicit value: when the parser and the choices accept it, no error is *)
(* recorded and the parsed default is the key's value, otherwise the      *)
(* validation error is the key's error and the key is not in the output;  *)
(* a resolved, declared undefined omits the key with no error.            *)
C7_FalsyDefaultValidated ==
    \A k \in Processed :
       /\ (NoExplicit(k) /\ rawValues[k] \in Falsy) =>
             LET r == ValidateVar(specs[k], rawValues[k])
             IN  /\ ~MissingFor(k)
                 /\ r.called => <<k, rawValues[k]>> \in parsed
                 /\ r.ok => /\ NoErrorFor(k)
                            /\ k \in DOMAIN Output
                            /\ Output[k] = r.value
                 /\ ~r.ok => /\ ErrorFor(k, r.err)
                             /\ k \notin DOMAIN Output
       /\ (rawValues[k] = Undefined
             /\ (specs[k].hasDefault \/ (~Production /\ specs[k].hasDevDefault))) =>
             /\ NoErrorFor(k)
             /\ k \notin DOMAIN Output

C7_Witness ==
    /\ pc = "returned"
    /\ "K1" \in Processed
    /\ NoExplicit("K1")
    /\ rawValues["K1"] = "n:0"
    /\ heap[result]["K1"] = "n:0"

(* C8: once cleanEnv has returned, no attempt to add, change or remove a  *)
(* key changes what is read from the returned object, whether or not      *)
(* middleware replaced the validated object.                              *)
C8_Immutable ==
    [][pc = "returned" => (result' = result /\ heap'[result] = heap[result])]_vars

C8_Witness ==
    /\ pc = "returned"
    /\ writes = MaxWrites
    /\ result # OutputId

(* C9: with reporter null no reporter function, custom or default, is     *)
(* ever called, whether or not a key is invalid.                          *)
C9_NoReporter ==
    (options.passed /\ options.reporter = Null) => reporterCalls = <<>>

(* C10: testOnly(value) is value when NODE_ENV is exactly "test" and the  *)
(* sentinel otherwise; a key whose default resolves to the sentinel gets  *)
(* an EnvMissingError and is absent from the output, which happens for a  *)
(* testOnly default unless the mode is exactly "test"; the sentinel is    *)
(* never given to a parser and never stored in an object.                 *)
C10_TestOnly ==
    /\ \A k \in Keys :
          LET expected == IF processNodeEnv = "s:test" THEN "s:stub" ELSE testOnlySymbol
          IN  /\ specSrc[k].default = TestOnlyStub => specs[k].default = expected
              /\ specSrc[k].devDefault = TestOnlyStub => specs[k].devDefault = expected
    /\ \A k \in Processed :
          /\ rawValues[k] = testOnlySymbol =>
                MissingFor(k) /\ k \notin DOMAIN Output
          /\ (specSrc[k].default = TestOnlyStub /\ ~specSrc[k].hasDevDefault
                /\ NoExplicit(k)) =>
                (MissingFor(k) <=> processNodeEnv # "s:test")
    /\ \A p \in parsed : p[2] # testOnlySymbol
    /\ \A id \in DOMAIN heap : \A k \in DOMAIN heap[id] : heap[id][k] # testOnlySymbol

C10_Witness ==
    /\ "K1" \in Processed
    /\ specSrc["K1"].default = TestOnlyStub
    /\ processNodeEnv # "s:test"
    /\ rawValues["K1"] = testOnlySymbol
    /\ "K1" \in DOMAIN errors
    /\ errors["K1"] = EnvMissingError

====
